---- MODULE Spec2Model ----
(***************************************************************************)
(* A model of the scheme_interpreter evaluation engine: the three-tier     *)
(* object model and slot allocator (scheme_interpreter/src/alloc.rs), the  *)
(* standard library written against it (scheme_interpreter/src/std_lib.rs) *)
(* with the registry of loaded files (scheme_core/src/error.rs), the REPL  *)
(* (scheme_repl/src/main.rs) and the tree-walking evaluator                *)
(* (scheme_interpreter/src/lib.rs).                                        *)
(*                                                                         *)
(* Every operation of the code is a pure operator from an interpreter      *)
(* context to [ctx |-> the context afterwards, res |-> what it returned];  *)
(* the actions apply one operation to the state.  A Rust panic (unwrap on  *)
(* None, panic!(), todo!(), an exhausted call stack) is a result with the  *)
(* tag Panic: the process is gone and no further action is enabled.        *)
(***************************************************************************)
EXTENDS Integers, Sequences, FiniteSets, TLC

VARIABLES heap, data_stack, ident_mapping, error_writer, returned, stack, last

vars == <<heap, data_stack, ident_mapping, error_writer, returned, stack, last>>

---------------------------------------------------------------------------
(* Bounds of the model.                                                    *)

\* The heap table is never grown beyond this many slots.
MaxHeap == 4
\* The data stack never holds more than this many items.
MaxData == 3
\* Operand counts n handed to a native function or macro: 0..MaxArgs.
MaxArgs == 4
\* An import nested deeper than this many imports exhausts the call stack.
MaxNest == 4
\* So does an evaluation of the tree-walking evaluator nested deeper than this.
MaxRecursion == 8

---------------------------------------------------------------------------
(* The object model.  Indices are 0-based as in the code; slot i of the    *)
(* heap table is heap[i + 1].                                              *)

\* Literal
Numeric(n) == [lit |-> "Numeric", n |-> n]
Boolean(b) == [lit |-> "Boolean", b |-> b]

\* ObjectPointer
Null == [ptr |-> "Null"]
Heap(i) == [ptr |-> "Heap", i |-> i]

\* StackObject
SValue(l) == [so |-> "Value", lit |-> l]
SRef(p) == [so |-> "Ref", p |-> p]

\* HeapObject, and the empty slot (Option::None)
None == [ho |-> "None"]
HValue(l) == [ho |-> "Value", lit |-> l]
HFunc(f) == [ho |-> "Func", f |-> f]
HString(s) == [ho |-> "String", s |-> s]
HList(h, t) == [ho |-> "List", head |-> h, tail |-> t]

\* UnallocatedObject
UNull == [uo |-> "Null"]
UValue(l) == [uo |-> "Value", lit |-> l]
UFunc(f) == [uo |-> "Func", f |-> f]
UString(s) == [uo |-> "String", s |-> s]
UList(h, t) == [uo |-> "List", head |-> h, tail |-> t]

\* Func::Defined(optional_name, param_names, body); the name is <<>> for None
\* and <<name>> for Some(name).
FuncDefined(name, param_names, body) ==
    [func |-> "Defined", name |-> name, param_names |-> param_names, body |-> body]

\* InterpreterResult
Ok(v) == [tag |-> "Ok", val |-> v]
Err(k) == [tag |-> "Err", kind |-> k]
ExpectedNParams(e, r) == [tag |-> "Err", kind |-> "ExpectedNParams", expected |-> e, received |-> r]
Panic == [tag |-> "Panic"]
StackOverflow == [tag |-> "Panic", why |-> "stack overflow"]
Unit == "()"

\* The interpreter context the operations work on.
Ctx == [heap |-> heap, data_stack |-> data_stack, ident_mapping |-> ident_mapping,
        error_writer |-> error_writer, returned |-> returned, interpreted |-> <<>>]

Occupied(h) == {i \in 0..(Len(h) - 1) : h[i + 1] # None}

---------------------------------------------------------------------------
(* scheme_core/src/error.rs: the registry of loaded files.  A PathBuf is   *)
(* the sequence of its components, the module extension left implicit; a   *)
(* file's contents are the top-level forms it parses to.                   *)

\* ErrorWriter::empty
ErrorWriter_empty ==
    [loaded_paths |-> [p \in {} |-> 0], id_to_path |-> [i \in {} |-> <<>>],
     files |-> [i \in {} |-> <<>>]]

\* BTreeMap::insert
insert(m, k, v) == [x \in DOMAIN m \cup {k} |-> IF x = k THEN v ELSE m[x]]

\* ErrorWriter::already_loaded
already_loaded_Never(ew, path) == FALSE
already_loaded(ew, path) == path \in DOMAIN ew.loaded_paths

\* ErrorWriter::add_file: the registry afterwards and the id issued.
add_file(ew, path, contents) ==
    LET id == Cardinality(DOMAIN ew.files)
    IN  [ew |-> [loaded_paths |-> insert(ew.loaded_paths, path, id),
                 id_to_path |-> insert(ew.id_to_path, id, path),
                 files |-> insert(ew.files, id, contents)],
         id |-> id]

---------------------------------------------------------------------------
(* alloc.rs                                                                *)

\* impl InterpreterStackAlloc for ObjectPointer
ObjectPointer_stack_alloc(c, p) ==
    IF p = Null THEN [ctx |-> c, res |-> Err("CannotAllocateNull")]
    ELSE [ctx |-> c, res |-> Ok(SRef(p))]

\* The slot heap_alloc picks: the first empty one, else the table's length.
find_id_AlwaysAppend(h) == Len(h)
find_id_IsSome(h) ==
    IF \E i \in 0..(Len(h) - 1) : h[i + 1] # None
    THEN CHOOSE i \in 0..(Len(h) - 1) :
            h[i + 1] # None /\ \A j \in 0..(i - 1) : h[j + 1] = None
    ELSE Len(h)
find_id(h) ==
    IF \E i \in 0..(Len(h) - 1) : h[i + 1] = None
    THEN CHOOSE i \in 0..(Len(h) - 1) :
            h[i + 1] = None /\ \A j \in 0..(i - 1) : h[j + 1] # None
    ELSE Len(h)

\* The number of empty slots appended when id is not in the table: the
\* inclusive range len ..= id + 1.
extend(len, id) == (id + 1) - len + 1

\* impl InterpreterHeapAlloc for HeapObject
HeapObject_heap_alloc(c, o) ==
    LET id == find_id(c.heap)
        grown == IF id >= Len(c.heap)
                 THEN c.heap \o [k \in 1..extend(Len(c.heap), id) |-> None]
                 ELSE c.heap
    IN  [ctx |-> [c EXCEPT !.heap = [grown EXCEPT ![id + 1] = o],
                           !.returned = Append(@, <<id, o>>)],
         res |-> Ok(Heap(id))]

\* impl InterpreterHeapAlloc for StackObject
StackObject_heap_alloc_BoxesRef(c, s) ==
    IF s.so = "Value" THEN HeapObject_heap_alloc(c, HValue(s.lit))
    ELSE IF s.p # Null /\ s.p.i \in Occupied(c.heap)
         THEN HeapObject_heap_alloc(c, c.heap[s.p.i + 1])
         ELSE [ctx |-> c, res |-> Ok(s.p)]
StackObject_heap_alloc(c, s) ==
    IF s.so = "Value" THEN HeapObject_heap_alloc(c, HValue(s.lit))
    ELSE [ctx |-> c, res |-> Ok(s.p)]

\* impl InterpreterHeapAlloc for UnallocatedObject
RECURSIVE UnallocatedObject_heap_alloc(_, _)
UnallocatedObject_heap_alloc_CellFirst(c, u) ==
    CASE u.uo = "Value" -> HeapObject_heap_alloc(c, HValue(u.lit))
      [] u.uo = "Func" -> HeapObject_heap_alloc(c, HFunc(u.f))
      [] u.uo = "String" -> HeapObject_heap_alloc(c, HString(u.s))
      [] u.uo = "List" ->
            LET cell == HeapObject_heap_alloc(c, HList(Null, Null))
                h == UnallocatedObject_heap_alloc(cell.ctx, u.head)
            IN  IF h.res.tag # "Ok" THEN h
                ELSE LET t == UnallocatedObject_heap_alloc(h.ctx, u.tail)
                     IN  IF t.res.tag # "Ok" THEN t
                         ELSE [ctx |-> [t.ctx EXCEPT !.heap[cell.res.val.i + 1] =
                                           HList(h.res.val, t.res.val)],
                               res |-> cell.res]
      [] u.uo = "Null" -> [ctx |-> c, res |-> Err("CannotAllocateNull")]
UnallocatedObject_heap_alloc(c, u) ==
    CASE u.uo = "Value" -> HeapObject_heap_alloc(c, HValue(u.lit))
      [] u.uo = "Func" -> HeapObject_heap_alloc(c, HFunc(u.f))
      [] u.uo = "String" -> HeapObject_heap_alloc(c, HString(u.s))
      [] u.uo = "List" ->
            LET h == UnallocatedObject_heap_alloc(c, u.head)
            IN  IF h.res.tag # "Ok" THEN h
                ELSE LET t == UnallocatedObject_heap_alloc(h.ctx, u.tail)
                     IN  IF t.res.tag # "Ok" THEN t
                         ELSE HeapObject_heap_alloc(t.ctx, HList(h.res.val, t.res.val))
      [] u.uo = "Null" -> [ctx |-> c, res |-> Err("CannotAllocateNull")]

\* impl InterpreterStackAlloc for UnallocatedObject
UnallocatedObject_stack_alloc(c, u) ==
    IF u.uo = "Value" THEN [ctx |-> c, res |-> Ok(SValue(u.lit))]
    ELSE LET r == UnallocatedObject_heap_alloc(c, u)
         IN  IF r.res.tag # "Ok" THEN r
             ELSE [ctx |-> r.ctx, res |-> Ok(SRef(r.res.val))]

\* impl InterpreterStackAlloc for HeapObject
HeapObject_stack_alloc(c, o) ==
    LET r == HeapObject_heap_alloc(c, o)
    IN  [ctx |-> r.ctx, res |-> Ok(SRef(r.res.val))]

\* InterpreterHeapAlloc::heap_alloc_named, given the result r of self.heap_alloc
heap_alloc_named_KeepFirst(r, ident) ==
    IF r.res.tag # "Ok" THEN r
    ELSE [ctx |-> [r.ctx EXCEPT !.ident_mapping =
                      [n \in DOMAIN @ \cup {ident} |->
                          IF n \in DOMAIN @ THEN @[n] ELSE r.res.val]],
          res |-> r.res]
heap_alloc_named(r, ident) ==
    IF r.res.tag # "Ok" THEN r
    ELSE [ctx |-> [r.ctx EXCEPT !.ident_mapping =
                      [n \in DOMAIN @ \cup {ident} |-> IF n = ident THEN r.res.val ELSE @[n]]],
          res |-> r.res]

---------------------------------------------------------------------------
(* The context's data stack, dereferencing and the evaluation of atoms.    *)
(* InterpreterContext, deref.rs and the stack-machine interpret are not    *)
(* among the sources; they follow the design's sections 4.3 and 4.4.       *)

\* AST nodes
ALiteral(l) == [ast |-> "Literal", lit |-> l]
AIdentifier(name) == [ast |-> "Identifier", name |-> name]

push_data(c, s) == [c EXCEPT !.data_stack = Append(@, s)]

\* Popping an empty data stack is a recoverable error.
pop_data(c) ==
    IF Len(c.data_stack) = 0 THEN [ctx |-> c, res |-> Err("EmptyDataStack")]
    ELSE [ctx |-> [c EXCEPT !.data_stack = SubSeq(@, 1, Len(@) - 1)],
          res |-> Ok(c.data_stack[Len(c.data_stack)])]

\* StackObject::deref: an inline value is itself, a reference is what its
\* slot holds (an ObjectRef is written as the HeapObject it refers to).
deref(c, s) ==
    IF s.so = "Value" THEN Ok(HValue(s.lit))
    ELSE IF s.p = Null THEN Err("NullDeref")
    ELSE IF s.p.i < Len(c.heap) /\ c.heap[s.p.i + 1] # None THEN Ok(c.heap[s.p.i + 1])
    ELSE Err("NullDeref")

\* ObjectRef::clone_to_unallocated, for the objects that hold no pointers.
clone_to_unallocated(o) ==
    CASE o.ho = "Value" -> UValue(o.lit)
      [] o.ho = "Func" -> UFunc(o.f)
      [] o.ho = "String" -> UString(o.s)

\* interpret of a literal or of an identifier bound in the global name table:
\* it pushes exactly one StackObject.  c.interpreted lists the nodes interpreted.
interpret(c, a) ==
    LET c1 == [c EXCEPT !.interpreted = Append(@, a)]
    IN  IF a.ast = "Literal" THEN [ctx |-> push_data(c1, SValue(a.lit)), res |-> Ok(Unit)]
        ELSE LET s == ObjectPointer_stack_alloc(c1, c1.ident_mapping[a.name])
             IN  IF s.res.tag # "Ok" THEN s
                 ELSE [ctx |-> push_data(s.ctx, s.res.val), res |-> Ok(Unit)]

---------------------------------------------------------------------------
(* std_lib.rs                                                              *)

\* InterpreterContext::stack_trace and heap_dump print the frame stack and
\* the heap table.
InterpreterContext_stack_trace(c) == c
InterpreterContext_heap_dump(c) == c

\* stack_trace
stack_trace_PopsOperands(c, n) ==
    [ctx |-> [c EXCEPT !.data_stack = SubSeq(@, 1, Len(@) - n)], res |-> Ok(Unit)]
stack_trace(c, n) == [ctx |-> InterpreterContext_stack_trace(c), res |-> Ok(Unit)]

\* heap_dump
heap_dump(c, n) == [ctx |-> InterpreterContext_heap_dump(c), res |-> Ok(Unit)]

\* The span of an ExpectedNParams error of `if`: the arguments after the
\* third, else ast.last().unwrap().
if_macro_span(n) ==
    IF n > 3 THEN Ok(Unit) ELSE IF n = 0 THEN Panic ELSE Ok(Unit)

\* Which values make `if` take its else branch.
is_falsy_ZeroToo(o) == o = HValue(Boolean(FALSE)) \/ o = HValue(Numeric(0))
is_falsy(o) == o = HValue(Boolean(FALSE))

\* if_macro: Ok(the sub-tree to evaluate next), an error or a panic.
if_macro(c, ast) ==
    IF Len(ast) # 3
    THEN IF if_macro_span(Len(ast)) = Panic THEN [ctx |-> c, res |-> Panic]
         ELSE [ctx |-> c, res |-> ExpectedNParams(3, Len(ast))]
    ELSE LET i == interpret(c, ast[1])
         IN  IF i.res.tag # "Ok" THEN i
             ELSE LET cond == pop_data(i.ctx)
                  IN  IF cond.res.tag # "Ok" THEN cond
                      ELSE LET d == deref(cond.ctx, cond.res.val)
                           IN  IF d.tag # "Ok" THEN [ctx |-> cond.ctx, res |-> d]
                               ELSE IF is_falsy(d.val)
                                    THEN [ctx |-> cond.ctx, res |-> Ok(ast[3])]
                                    ELSE [ctx |-> cond.ctx, res |-> Ok(ast[2])]

\* The parameter names of (define (name p1 ..) body): the first parameter
\* that is not an identifier ends the loop, a literal with an error and any
\* other node with todo!().
RECURSIVE define_param_names(_)
define_param_names(op_params) ==
    IF Len(op_params) = 0 THEN Ok(<<>>)
    ELSE CASE Head(op_params).ast = "Identifier" ->
                 LET rest == define_param_names(Tail(op_params))
                 IN  IF rest.tag # "Ok" THEN rest
                     ELSE Ok(<<Head(op_params).name>> \o rest.val)
           [] Head(op_params).ast \in {"Literal", "StringLiteral"} ->
                 Err("InvalidFuncParamNames")
           [] OTHER -> Panic

\* define, of a value (define name expr) and of a function
\* (define (name p1 ..) body).  ast.next().unwrap() on the second argument
\* panics when there is none.
define(c, ast) ==
    IF Len(ast) > 2 \/ Len(ast) = 0 THEN [ctx |-> c, res |-> ExpectedNParams(2, Len(ast))]
    ELSE CASE ast[1].ast = "Identifier" ->
                 IF Len(ast) = 1 THEN [ctx |-> c, res |-> Panic]
                 ELSE LET i == interpret(c, ast[2])
                      IN  IF i.res.tag # "Ok" THEN i
                          ELSE LET p == pop_data(i.ctx)
                               IN  IF p.res.tag # "Ok" THEN p
                                   ELSE LET r == heap_alloc_named(
                                                     StackObject_heap_alloc(p.ctx, p.res.val),
                                                     ast[1].name)
                                        IN  IF r.res.tag # "Ok" THEN r
                                            ELSE [ctx |-> r.ctx, res |-> Ok(Unit)]
           [] ast[1].ast = "Operation" ->
                 IF ast[1].op.ast # "Identifier" THEN [ctx |-> c, res |-> Err("CannotCall")]
                 ELSE LET names == define_param_names(ast[1].args)
                      IN  IF names.tag # "Ok" THEN [ctx |-> c, res |-> names]
                          ELSE IF Len(ast) = 1 THEN [ctx |-> c, res |-> Panic]
                          ELSE LET r == heap_alloc_named(
                                            HeapObject_heap_alloc(c,
                                                HFunc(FuncDefined(<<ast[1].op.name>>,
                                                                  names.val, ast[2]))),
                                            ast[1].op.name)
                               IN  IF r.res.tag # "Ok" THEN r
                                   ELSE [ctx |-> r.ctx, res |-> Ok(Unit)]
           [] OTHER -> [ctx |-> c, res |-> Err("CannotCall")]

\* for d in data { print!("{} ", d.deref(interpreter)?) }: the first error met.
RECURSIVE print_all(_, _)
print_all(c, data) ==
    IF Len(data) = 0 THEN Ok(Unit)
    ELSE IF deref(c, Head(data)).tag # "Ok" THEN deref(c, Head(data))
    ELSE print_all(c, Tail(data))

\* for _ in 0..n { objs.push(interpreter.pop_data()?) }: the items in the
\* order they were popped, top of the stack first.
pop_n(c, n) ==
    IF n > Len(c.data_stack)
    THEN [ctx |-> [c EXCEPT !.data_stack = <<>>], res |-> Err("EmptyDataStack")]
    ELSE [ctx |-> [c EXCEPT !.data_stack = SubSeq(@, 1, Len(@) - n)],
          res |-> Ok([k \in 1..n |-> c.data_stack[Len(c.data_stack) - k + 1]])]

\* objs.reverse()
reverse_Missing(objs) == objs
reverse(objs) == [k \in 1..Len(objs) |-> objs[Len(objs) - k + 1]]

\* write
write(c, n) ==
    LET p == pop_n(c, n)
    IN  IF p.res.tag # "Ok" THEN p
        ELSE [ctx |-> p.ctx, res |-> print_all(p.ctx, reverse(p.res.val))]

\* Integer division as Rust's `/`: it truncates toward zero.
trunc_div(l, r) ==
    LET al == IF l < 0 THEN -l ELSE l
        ar == IF r < 0 THEN -r ELSE r
    IN  IF (l < 0) = (r < 0) THEN al \div ar ELSE -(al \div ar)

\* bin_op!(add, l, r, l + r) ... bin_op!(div, l, r, l / r)
calc(op, l, r) ==
    CASE op = "add" -> l + r
      [] op = "sub" -> l - r
      [] op = "mul" -> l * r
      [] op = "div" -> trunc_div(l, r)

\* The numeric operator folded from the left over numbers vs, Len(vs) >= 1.
RECURSIVE bin_op_numbers(_, _)
bin_op_numbers(op, vs) ==
    IF Len(vs) = 1 THEN vs[1]
    ELSE calc(op, bin_op_numbers(op, SubSeq(vs, 1, Len(vs) - 1)), vs[Len(vs)])

SomeOut(u) == [opt |-> "Some", val |-> u]
NoneOut == [opt |-> "None"]
PanicOut == [opt |-> "Panic"]

\* The closure of bin_op!'s fold: one step from the accumulator `out`.
bin_op_step(c, op, out, obj) ==
    LET d == deref(c, obj)
    IN  IF out = PanicOut \/ d.tag # "Ok" THEN PanicOut
        ELSE IF out = NoneOut THEN SomeOut(clone_to_unallocated(d.val))
        ELSE IF /\ out.val.uo = "Value" /\ out.val.lit.lit = "Numeric"
                /\ d.val.ho = "Value" /\ d.val.lit.lit = "Numeric"
             THEN SomeOut(UValue(Numeric(calc(op, out.val.lit.n, d.val.lit.n))))
             ELSE PanicOut

RECURSIVE bin_op_fold(_, _, _, _)
bin_op_fold(c, op, out, objs) ==
    IF Len(objs) = 0 THEN out
    ELSE bin_op_fold(c, op, bin_op_step(c, op, out, Head(objs)), Tail(objs))

\* bin_op!: add, sub, mul, div
bin_op(c, op, n) ==
    LET p == pop_n(c, n)
    IN  IF p.res.tag # "Ok" THEN p
        ELSE LET out == bin_op_fold(p.ctx, op, NoneOut, reverse(p.res.val))
             IN  IF out = PanicOut THEN [ctx |-> p.ctx, res |-> Panic]
                 ELSE IF out = NoneOut THEN [ctx |-> p.ctx, res |-> Err("FailedOperation")]
                 ELSE LET s == UnallocatedObject_stack_alloc(p.ctx, out.val)
                      IN  IF s.res.tag # "Ok" THEN s
                          ELSE [ctx |-> push_data(s.ctx, s.res.val), res |-> Ok(Unit)]

\* cmp_op!(eq, l, r, l == r) ... cmp_op!(gteq, l, r, l >= r), on dereferenced
\* values; the order relations are taken on numbers.
cmp_calc(op, l, r) ==
    CASE op = "eq" -> l = r
      [] op = "lt" -> l.lit.n < r.lit.n
      [] op = "lteq" -> l.lit.n <= r.lit.n
      [] op = "gt" -> l.lit.n > r.lit.n
      [] op = "gteq" -> l.lit.n >= r.lit.n

\* The closure of cmp_op!'s fold over objs.windows(2): out && { deref l;
\* deref r; calc }, an error once one was met.
cmp_op_step(c, op, out, l, r) ==
    IF out.tag # "Ok" THEN out
    ELSE IF ~out.val THEN Ok(FALSE)
    ELSE LET dl == deref(c, l)
             dr == deref(c, r)
         IN  IF dl.tag # "Ok" THEN dl
             ELSE IF dr.tag # "Ok" THEN dr
             ELSE Ok(cmp_calc(op, dl.val, dr.val))

RECURSIVE cmp_op_fold_AgainstFirst(_, _, _, _, _)
cmp_op_fold_AgainstFirst(c, op, out, objs, k) ==
    IF k + 1 > Len(objs) THEN out
    ELSE cmp_op_fold_AgainstFirst(c, op, cmp_op_step(c, op, out, objs[1], objs[k + 1]),
                                  objs, k + 1)
RECURSIVE cmp_op_fold(_, _, _, _, _)
cmp_op_fold(c, op, out, objs, k) ==
    IF k + 1 > Len(objs) THEN out
    ELSE cmp_op_fold(c, op, cmp_op_step(c, op, out, objs[k], objs[k + 1]), objs, k + 1)

\* cmp_op!: eq, lt, lteq, gt, gteq
cmp_op(c, op, n) ==
    LET p == pop_n(c, n)
    IN  IF p.res.tag # "Ok" THEN p
        ELSE LET out == cmp_op_fold(p.ctx, op, Ok(TRUE), reverse(p.res.val), 1)
             IN  IF out.tag # "Ok" THEN [ctx |-> p.ctx, res |-> out]
                 ELSE [ctx |-> push_data(p.ctx, SValue(Boolean(out.val))), res |-> Ok(Unit)]

\* car and cdr on a StackObject::Ref(p), p a Heap pointer or Null.
list_side(c, p, side) ==
    IF p = Null THEN [ctx |-> c, res |-> Err("NullDeref")]
    ELSE IF ~(p.i < Len(c.heap) /\ c.heap[p.i + 1] # None)
         THEN [ctx |-> c, res |-> Err("NullDeref")]
    ELSE IF c.heap[p.i + 1].ho # "List" THEN [ctx |-> c, res |-> Panic]
    ELSE LET s == ObjectPointer_stack_alloc(c,
                     IF side = "head" THEN c.heap[p.i + 1].head ELSE c.heap[p.i + 1].tail)
         IN  IF s.res.tag # "Ok" THEN s
             ELSE [ctx |-> push_data(s.ctx, s.res.val), res |-> Ok(Unit)]

car_ScalarNotPushedBack(c, n) ==
    IF n # 1 THEN [ctx |-> c, res |-> ExpectedNParams(1, n)]
    ELSE LET list == pop_data(c)
         IN  IF list.res.tag # "Ok" THEN list
             ELSE IF list.res.val.so = "Value"
                  THEN [ctx |-> list.ctx, res |-> Ok(Unit)]
                  ELSE list_side(list.ctx, list.res.val.p, "head")
car(c, n) ==
    IF n # 1 THEN [ctx |-> c, res |-> ExpectedNParams(1, n)]
    ELSE LET list == pop_data(c)
         IN  IF list.res.tag # "Ok" THEN list
             ELSE IF list.res.val.so = "Value"
                  THEN [ctx |-> push_data(list.ctx, list.res.val), res |-> Ok(Unit)]
                  ELSE list_side(list.ctx, list.res.val.p, "head")

cdr(c, n) ==
    IF n # 1 THEN [ctx |-> c, res |-> ExpectedNParams(1, n)]
    ELSE LET list == pop_data(c)
         IN  IF list.res.tag # "Ok" THEN list
             ELSE IF list.res.val.so = "Value"
                  THEN [ctx |-> list.ctx, res |-> Err("ExpectedList")]
                  ELSE list_side(list.ctx, list.res.val.p, "tail")

---------------------------------------------------------------------------
(* std_lib.rs: the module loader.                                          *)

\* A source span: the file a node was parsed from and its line.
Span(file_id, line) == [file_id |-> file_id, line |-> line]
Spanned(node, sp) == node @@ [span |-> sp]

\* (import seg1 seg2 ...), as written in a file.
AImport(segs) ==
    [ast |-> "Operation", op |-> AIdentifier("import"),
     args |-> [k \in 1..Len(segs) |-> AIdentifier(segs[k])]]

\* The module files on disk, by path: the forms each parses to, or Unparsable.
Unparsable == "unparsable"
Disk ==
    (<<"m">> :> <<AImport(<<"n">>), ALiteral(Numeric(1))>>)
    @@ (<<"n">> :> <<AImport(<<"m">>), AImport(<<"n">>), AImport(<<"lib", "k">>)>>)
    @@ (<<"lib", "k">> :> <<AImport(<<"k">>), ALiteral(Numeric(0))>>)
    @@ (<<"bad">> :> Unparsable)

\* LexerParser::from_string(id, contents, ..): every node carries the file id.
parse(id, contents) ==
    [k \in 1..Len(contents) |->
        IF contents[k].ast = "Operation"
        THEN Spanned([contents[k] EXCEPT
                         !.args = [j \in 1..Len(@) |-> Spanned(@[j], Span(id, k))]],
                     Span(id, k))
        ELSE Spanned(contents[k], Span(id, k))]

\* env::current_dir()
current_dir == <<>>

\* The file an import names: the segments joined under the directory of the
\* importing file, or under the working directory when that file has no path.
import_file_path(ew, cur_file_id, path) ==
    LET dir == IF cur_file_id \in DOMAIN ew.id_to_path
               THEN SubSeq(ew.id_to_path[cur_file_id], 1, Len(ew.id_to_path[cur_file_id]) - 1)
               ELSE current_dir
    IN  dir \o path

RECURSIVE import(_, _, _)
RECURSIVE load(_, _, _)
RECURSIVE interpret_nodes(_, _, _)

\* The dispatcher on a top-level form of a module: an atom, or (import ...)
\* called with its unevaluated arguments.  depth is the room left on the
\* call stack.
interpret_node(c, node, depth) ==
    IF node.ast # "Operation" THEN interpret(c, node)
    ELSE IF depth = 0 THEN [ctx |-> c, res |-> StackOverflow]
    ELSE import([c EXCEPT !.interpreted = Append(@, node)], node.args, depth - 1)

\* for node in ast { interpreter.interpret(&node)?; }
interpret_nodes(c, nodes, depth) ==
    IF Len(nodes) = 0 THEN [ctx |-> c, res |-> Ok(Unit)]
    ELSE LET r == interpret_node(c, Head(nodes), depth)
         IN  IF r.res.tag # "Ok" THEN r
             ELSE interpret_nodes(r.ctx, Tail(nodes), depth)

\* import, from the file's registration on: add_file, parse, interpret the forms.
load_RegisterAfter(c, file_path, depth) ==
    LET id == Cardinality(DOMAIN c.error_writer.files)
    IN  IF Disk[file_path] = Unparsable
        THEN [ctx |-> [c EXCEPT !.error_writer = add_file(@, file_path, Disk[file_path]).ew],
              res |-> Err("ErrorInParsingImport")]
        ELSE LET r == interpret_nodes(c, parse(id, Disk[file_path]), depth)
             IN  [ctx |-> [r.ctx EXCEPT !.error_writer = add_file(@, file_path, Disk[file_path]).ew],
                  res |-> r.res]
load(c, file_path, depth) ==
    LET a == add_file(c.error_writer, file_path, Disk[file_path])
        c1 == [c EXCEPT !.error_writer = a.ew]
    IN  IF Disk[file_path] = Unparsable
        THEN [ctx |-> c1, res |-> Err("ErrorInParsingImport")]
        ELSE interpret_nodes(c1, parse(a.id, Disk[file_path]), depth)

\* import
import(c, ast, depth) ==
    IF Len(ast) = 0 THEN [ctx |-> c, res |-> Err("EmptyImport")]
    ELSE IF \E k \in 1..Len(ast) : ast[k].ast # "Identifier"
         THEN [ctx |-> c, res |-> Err("InvalidInImport")]
    ELSE LET cur_file_id == ast[1].span.file_id
             file_path == import_file_path(c.error_writer, cur_file_id,
                                           [k \in 1..Len(ast) |-> ast[k].name])
         IN  IF already_loaded(c.error_writer, file_path) THEN [ctx |-> c, res |-> Ok(Unit)]
             ELSE IF file_path \notin DOMAIN Disk
                  THEN [ctx |-> c, res |-> Err("ImportNotFound")]
             ELSE load(c, file_path, depth)

---------------------------------------------------------------------------
(* std_lib.rs: lambda, and the dispatcher that calls the standard library. *)

\* AST::Operation(head, args) and AST::EmptyList
Op(name, args) == [ast |-> "Operation", op |-> AIdentifier(name), args |-> args]
AEmptyList == [ast |-> "EmptyList"]

\* The parameter names a lambda's first argument gives.
lambda_param_names_NoHead(first) ==
    CASE first.ast = "Identifier" -> Ok(<<first.name>>)
      [] first.ast = "Operation" ->
            IF first.op.ast # "Identifier" THEN Err("IsNotParamName")
            ELSE IF \E k \in 1..Len(first.args) : first.args[k].ast # "Identifier"
                 THEN Err("IsNotParamName")
            ELSE Ok([k \in 1..Len(first.args) |-> first.args[k].name])
      [] first.ast = "EmptyList" -> Ok(<<>>)
      [] OTHER -> Err("CannotCall")
lambda_param_names(first) ==
    CASE first.ast = "Identifier" -> Ok(<<first.name>>)
      [] first.ast = "Operation" ->
            IF first.op.ast # "Identifier" THEN Err("IsNotParamName")
            ELSE IF \E k \in 1..Len(first.args) : first.args[k].ast # "Identifier"
                 THEN Err("IsNotParamName")
            ELSE Ok(<<first.op.name>> \o [k \in 1..Len(first.args) |-> first.args[k].name])
      [] first.ast = "EmptyList" -> Ok(<<>>)
      [] OTHER -> Err("CannotCall")

\* lambda
lambda_NoPush(c, ast) ==
    IF Len(ast) > 2 \/ Len(ast) = 0 THEN [ctx |-> c, res |-> ExpectedNParams(2, Len(ast))]
    ELSE IF lambda_param_names(ast[1]).tag # "Ok"
         THEN [ctx |-> c, res |-> lambda_param_names(ast[1])]
    ELSE IF Len(ast) = 1 THEN [ctx |-> c, res |-> Panic]
    ELSE LET obj == UnallocatedObject_stack_alloc(c,
                        UFunc(FuncDefined(<<>>, lambda_param_names(ast[1]).val, ast[2])))
         IN  IF obj.res.tag # "Ok" THEN obj
             ELSE [ctx |-> obj.ctx, res |-> Ok(Unit)]
lambda(c, ast) ==
    IF Len(ast) > 2 \/ Len(ast) = 0 THEN [ctx |-> c, res |-> ExpectedNParams(2, Len(ast))]
    ELSE IF lambda_param_names(ast[1]).tag # "Ok"
         THEN [ctx |-> c, res |-> lambda_param_names(ast[1])]
    ELSE IF Len(ast) = 1 THEN [ctx |-> c, res |-> Panic]
    ELSE LET obj == UnallocatedObject_stack_alloc(c,
                        UFunc(FuncDefined(<<>>, lambda_param_names(ast[1]).val, ast[2])))
         IN  IF obj.res.tag # "Ok" THEN obj
             ELSE [ctx |-> push_data(obj.ctx, obj.res.val), res |-> Ok(Unit)]

\* The arguments of a native function's call, interpreted in turn: each
\* pushes one result.
RECURSIVE interpret_args(_, _)
interpret_args(c, args) ==
    IF Len(args) = 0 THEN [ctx |-> c, res |-> Ok(Unit)]
    ELSE LET r == interpret(c, Head(args))
         IN  IF r.res.tag # "Ok" THEN r ELSE interpret_args(r.ctx, Tail(args))

\* The native function bound to a name, invoked with the operand count n.
call_native(c, name, n) ==
    CASE name \in {"add", "sub", "mul", "div"} -> bin_op(c, name, n)
      [] name \in {"eq", "lt", "lteq", "gt", "gteq"} -> cmp_op(c, name, n)
      [] name = "write" -> write(c, n)
      [] name = "car" -> car(c, n)
      [] name = "cdr" -> cdr(c, n)
      [] name = "stack_trace" -> stack_trace(c, n)
      [] name = "heap_dump" -> heap_dump(c, n)

\* interpret of any node: an atom, a special form called with its unevaluated
\* arguments (if returns the sub-tree to interpret next), or a native
\* function called after its arguments were interpreted.
interpret_expr(c, e) ==
    IF e.ast # "Operation" THEN interpret(c, e)
    ELSE CASE e.op.name = "define" -> define(c, e.args)
           [] e.op.name = "import" -> import(c, e.args, MaxNest)
           [] e.op.name = "lambda" -> lambda(c, e.args)
           [] e.op.name = "if" ->
                 LET m == if_macro(c, e.args)
                 IN  IF m.res.tag = "Ok" THEN interpret(m.ctx, m.res.val) ELSE m
           [] OTHER ->
                 LET a == interpret_args(c, e.args)
                 IN  IF a.res.tag # "Ok" THEN a
                     ELSE call_native(a.ctx, e.op.name, Len(e.args))

---------------------------------------------------------------------------
(* scheme_interpreter/src/lib.rs: the tree-walking evaluator, which scopes *)
(* names by a Vec of frames and returns Symbols.  An evaluation works on   *)
(* s = [stack |-> the frames, calls |-> a record of each call of a defined *)
(* function that returned, defs |-> the names define_symbol assigned] and  *)
(* gives [s |-> .., res |-> Ok(symbol)] or a panic.  StackFrame, Symbol    *)
(* and the prelude's native functions are not among the sources.           *)

AOperation(op, params) == [ast |-> "Operation", op |-> op, params |-> params]

\* Symbol
SymValue(l) == [sym |-> "Value", lit |-> l]
SymTokens(a) == [sym |-> "Tokens", ast |-> a]
SymDefined(param_names, ast) ==
    [sym |-> "FunctionCall", f |-> "Defined", param_names |-> param_names, ast |-> ast]
SymNative(name) == [sym |-> "FunctionCall", f |-> "Native", name |-> name]
Bottom == [sym |-> "Bottom"]

\* StackFrame::new, StackFrame::add_item, StackFrame::prelude
StackFrame_new == [n \in {} |-> Bottom]
add_item(frame, name, value) == insert(frame, name, value)
prelude == [n \in {"+", "-", "<=", "if"} |-> SymNative(n)]

\* The innermost frame that binds symbol, 0 when none does.
find_frame(st, symbol) ==
    IF \E k \in 1..Len(st) : symbol \in DOMAIN st[k]
    THEN CHOOSE k \in 1..Len(st) :
            /\ symbol \in DOMAIN st[k]
            /\ \A j \in (k + 1)..Len(st) : symbol \notin DOMAIN st[j]
    ELSE 0

\* Interpreter::resolve_symbol
resolve_symbol(st, symbol) ==
    IF find_frame(st, symbol) = 0 THEN [some |-> FALSE]
    ELSE [some |-> TRUE, val |-> st[find_frame(st, symbol)][symbol]]

\* Interpreter::define_symbol
define_symbol(st, symbol, value) ==
    IF find_frame(st, symbol) = 0
    THEN [st EXCEPT ![Len(st)] = add_item(@, symbol, value)]
    ELSE [st EXCEPT ![find_frame(st, symbol)] = add_item(@, symbol, value)]

\* Interpreter::create_stack_frame, Interpreter::pop_stack_frame
create_stack_frame(st) == Append(st, StackFrame_new)
pop_stack_frame_Missing(st) == st
pop_stack_frame(st) == SubSeq(st, 1, Len(st) - 1)

\* param_names.iter().zip(params).for_each(|(n, v)| stack.add_item(n, v))
bind_params(st, param_names, params) ==
    LET n == IF Len(param_names) < Len(params) THEN Len(param_names) ELSE Len(params)
    IN  [st EXCEPT ![Len(st)] =
            [name \in {param_names[k] : k \in 1..n} |->
                params[CHOOSE k \in 1..n : param_names[k] = name]]]

\* An evaluation that starts with the frames st.
Evaluation(st) == [stack |-> st, calls |-> <<>>, defs |-> <<>>]

RECURSIVE Interpreter_interpret(_, _, _)
RECURSIVE operation(_, _, _, _)
RECURSIVE func_call(_, _, _, _)
RECURSIVE native(_, _, _, _)
RECURSIVE eval_params(_, _, _)

\* A native function's parameters, each interpreted in turn.
eval_params(s, params, depth) ==
    IF Len(params) = 0 THEN [s |-> s, res |-> Ok(<<>>)]
    ELSE LET h == IF Head(params).sym = "Tokens"
                  THEN Interpreter_interpret(s, Head(params).ast, depth)
                  ELSE [s |-> s, res |-> Ok(Head(params))]
         IN  IF h.res.tag # "Ok" THEN h
             ELSE LET t == eval_params(h.s, Tail(params), depth)
                  IN  IF t.res.tag # "Ok" THEN t
                      ELSE [s |-> t.s, res |-> Ok(<<h.res.val>> \o t.res.val)]

\* The prelude's native functions: +, -, <= and if.
native(s, name, params, depth) ==
    IF name = "if"
    THEN IF Len(params) # 3 THEN [s |-> s, res |-> Panic]
         ELSE LET c == eval_params(s, <<params[1]>>, depth)
              IN  IF c.res.tag # "Ok" THEN c
                  ELSE IF c.res.val[1] = SymValue(Boolean(FALSE))
                       THEN Interpreter_interpret(c.s, params[3].ast, depth)
                       ELSE Interpreter_interpret(c.s, params[2].ast, depth)
    ELSE LET e == eval_params(s, params, depth)
         IN  IF e.res.tag # "Ok" THEN e
             ELSE IF \/ Len(e.res.val) = 0
                     \/ \E k \in 1..Len(e.res.val) :
                           ~(e.res.val[k].sym = "Value" /\ e.res.val[k].lit.lit = "Numeric")
                  THEN [s |-> e.s, res |-> Panic]
             ELSE LET vs == [k \in 1..Len(e.res.val) |-> e.res.val[k].lit.n]
                  IN  [s |-> e.s,
                       res |-> Ok(SymValue(
                           CASE name = "+" -> Numeric(bin_op_numbers("add", vs))
                             [] name = "-" -> Numeric(bin_op_numbers("sub", vs))
                             [] name = "<=" ->
                                   Boolean(\A k \in 1..(Len(vs) - 1) : vs[k] <= vs[k + 1])))]

\* Interpreter::func_call
func_call(s, f, params, depth) ==
    IF f.f = "Native" THEN native(s, f.name, params, depth)
    ELSE LET entered == bind_params(create_stack_frame(s.stack), f.param_names, params)
             r == Interpreter_interpret([s EXCEPT !.stack = entered], f.ast, depth)
         IN  IF r.res.tag # "Ok" THEN r
             ELSE [s |-> [stack |-> pop_stack_frame(r.s.stack),
                          calls |-> Append(r.s.calls,
                                       [f |-> f, params |-> params, before |-> s.stack,
                                        entered |-> entered,
                                        after |-> pop_stack_frame(r.s.stack),
                                        defined |-> {r.s.defs[k] :
                                                       k \in (Len(s.defs) + 1)..Len(r.s.defs)},
                                        result |-> r.res.val]),
                          defs |-> r.s.defs],
                   res |-> r.res]

\* Interpreter::operation
operation(s, op, params, depth) ==
    IF op.ast # "Identifier" THEN [s |-> s, res |-> Panic]
    ELSE IF op.name = "define"
    THEN IF Len(params) < 2 THEN [s |-> s, res |-> Panic]
         ELSE IF params[1].ast = "Identifier"
         THEN LET value == Interpreter_interpret(s, params[2], depth)
              IN  IF value.res.tag # "Ok" THEN value
                  ELSE [s |-> [value.s EXCEPT
                                  !.stack = define_symbol(@, params[1].name, value.res.val),
                                  !.defs = Append(@, params[1].name)],
                        res |-> Ok(Bottom)]
         ELSE IF params[1].ast = "Operation"
         THEN IF \/ params[1].op.ast # "Identifier"
                 \/ \E k \in 1..Len(params[1].params) : params[1].params[k].ast # "Identifier"
              THEN [s |-> s, res |-> Panic]
              ELSE [s |-> [s EXCEPT
                              !.stack = define_symbol(@, params[1].op.name,
                                  SymDefined([k \in 1..Len(params[1].params) |->
                                                 params[1].params[k].name],
                                             params[2])),
                              !.defs = Append(@, params[1].op.name)],
                    res |-> Ok(Bottom)]
         ELSE [s |-> s, res |-> Panic]
    ELSE LET r == resolve_symbol(s.stack, op.name)
         IN  IF r.some /\ r.val.sym = "FunctionCall"
             THEN func_call(s, r.val, [k \in 1..Len(params) |-> SymTokens(params[k])], depth)
             ELSE [s |-> s, res |-> Panic]

\* Interpreter::interpret.  depth is the room left on the call stack.
Interpreter_interpret(s, ast, depth) ==
    IF depth = 0 THEN [s |-> s, res |-> StackOverflow]
    ELSE CASE ast.ast = "Literal" -> [s |-> s, res |-> Ok(SymValue(ast.lit))]
           [] ast.ast = "Identifier" ->
                 LET r == resolve_symbol(s.stack, ast.name)
                 IN  IF ~r.some THEN [s |-> s, res |-> Panic]
                     ELSE IF r.val.sym = "Value" THEN [s |-> s, res |-> Ok(r.val)]
                     ELSE IF r.val.sym = "Tokens"
                          THEN Interpreter_interpret(s, r.val.ast, depth - 1)
                     ELSE [s |-> s, res |-> Panic]
           [] ast.ast = "Operation" -> operation(s, ast.op, ast.params, depth - 1)

---------------------------------------------------------------------------
(* The inputs the allocator is called with.                                *)

Literals == {Numeric(0), Numeric(1), Boolean(FALSE), Boolean(TRUE)}
DefExprs == {ALiteral(Numeric(1)), ALiteral(Boolean(FALSE))}
HeapObjects == {HValue(Numeric(1)), HValue(Boolean(FALSE)), HString("s")}
Pointers == {Null} \cup {Heap(i) : i \in 0..(MaxHeap - 1)}
StackObjects == {SValue(Numeric(1)), SValue(Boolean(FALSE))} \cup {SRef(p) : p \in Pointers}
UnallocatedObjects ==
    {UNull, UValue(Numeric(1)), UString("s"), UFunc("f"),
     UList(UValue(Numeric(1)), UValue(Numeric(0))),
     UList(UValue(Numeric(1)), UNull),
     UList(UNull, UValue(Numeric(1)))}

---------------------------------------------------------------------------
(* State.                                                                  *)

Init ==
    /\ heap = <<>>
    /\ data_stack = <<>>
    /\ ident_mapping = [n \in {} |-> Null]
    /\ error_writer = ErrorWriter_empty
    /\ returned = <<>>
    /\ stack = <<prelude>>
    /\ last = [op |-> "new", res |-> Ok(Unit)]

Alive == last.res.tag # "Panic"

\* The state after an operation that returned r; info is what `last` keeps of it.
Commit(r, info) ==
    /\ Len(r.ctx.heap) <= MaxHeap
    /\ Len(r.ctx.data_stack) <= MaxData
    /\ heap' = r.ctx.heap
    /\ data_stack' = r.ctx.data_stack
    /\ ident_mapping' = r.ctx.ident_mapping
    /\ error_writer' = r.ctx.error_writer
    /\ stack' = stack
    /\ returned' = r.ctx.returned
    /\ last' = info @@ [res |-> r.res]

---------------------------------------------------------------------------
(* The allocator's operations as actions.                                  *)

HeapAllocHeapObject ==
    \E o \in HeapObjects :
        /\ Alive
        /\ Commit(HeapObject_heap_alloc(Ctx, o),
                  [op |-> "HeapObject::heap_alloc", arg |-> o])

HeapAllocStackObject ==
    \E s \in StackObjects :
        /\ Alive
        /\ Commit(StackObject_heap_alloc(Ctx, s),
                  [op |-> "StackObject::heap_alloc", arg |-> s])

HeapAllocUnallocatedObject ==
    \E u \in UnallocatedObjects :
        /\ Alive
        /\ Commit(UnallocatedObject_heap_alloc(Ctx, u),
                  [op |-> "UnallocatedObject::heap_alloc", arg |-> u])

StackAllocObjectPointer ==
    \E p \in Pointers :
        /\ Alive
        /\ Commit(ObjectPointer_stack_alloc(Ctx, p),
                  [op |-> "ObjectPointer::stack_alloc", arg |-> p])

StackAllocUnallocatedObject ==
    \E u \in UnallocatedObjects :
        /\ Alive
        /\ Commit(UnallocatedObject_stack_alloc(Ctx, u),
                  [op |-> "UnallocatedObject::stack_alloc", arg |-> u])

StackAllocHeapObject ==
    \E o \in HeapObjects :
        /\ Alive
        /\ Commit(HeapObject_stack_alloc(Ctx, o),
                  [op |-> "HeapObject::stack_alloc", arg |-> o])

NextAlloc ==
    \/ HeapAllocHeapObject
    \/ HeapAllocStackObject
    \/ HeapAllocUnallocatedObject
    \/ StackAllocObjectPointer
    \/ StackAllocUnallocatedObject
    \/ StackAllocHeapObject

SpecAlloc == Init /\ [][NextAlloc]_vars

---------------------------------------------------------------------------
(* The standard library's operations as actions.                           *)

ArithOps == {"add", "sub", "mul", "div"}
CmpOps == {"eq", "lt", "lteq", "gt", "gteq"}

\* The numbers an arithmetic result may take in the model.
Nums == -1..1

\* The atoms that can be evaluated in the current state.
Atoms == {ALiteral(l) : l \in Literals} \cup {AIdentifier(n) : n \in DOMAIN ident_mapping}

\* The argument lists `if` is called with: n sub-trees, a condition first,
\* then two distinguishable branches.
Branches == {<<ALiteral(Numeric(1)), ALiteral(Numeric(0))>>,
             <<ALiteral(Boolean(FALSE)), ALiteral(Numeric(1))>>}
IfArgs ==
    {<<c, b[1], b[2]>> : c \in Atoms, b \in Branches}
    \cup {[k \in 1..n |-> ALiteral(Boolean(k % 2 = 0))] : n \in (0..MaxArgs) \ {3}}

\* The n operands of a call, in the order they were pushed.
Operands(n) == SubSeq(data_stack, Len(data_stack) - n + 1, Len(data_stack))

IsNumber(s) ==
    LET d == deref(Ctx, s)
    IN  d.tag = "Ok" /\ d.val.ho = "Value" /\ d.val.lit.lit = "Numeric"
NumberOf(s) == deref(Ctx, s).val.lit.n

\* The numbers on the data stack stay within Nums.
InRange(c) ==
    \A k \in 1..Len(c.data_stack) :
        LET s == c.data_stack[k]
        IN  (s.so = "Value" /\ s.lit.lit = "Numeric") => s.lit.n \in Nums

\* interpret of a top-level atom.
Interpret ==
    \E a \in Atoms :
        /\ Alive
        /\ Commit(interpret(Ctx, a), [op |-> "interpret"])

\* The REPL pops the result of a top-level form (scheme_repl main).
ReplPop ==
    /\ Alive
    /\ Len(data_stack) > 0
    /\ Commit([ctx |-> pop_data(Ctx).ctx, res |-> Ok(Unit)], [op |-> "pop_data"])

\* The dispatcher on (if ...): if_macro, then interpret of the sub-tree it returns.
If ==
    \E args \in IfArgs :
        LET m == if_macro(Ctx, args)
            r == IF m.res.tag = "Ok" THEN interpret(m.ctx, m.res.val) ELSE m
        IN  /\ Alive
            /\ Commit(r, [op |-> "if", args |-> args, macro |-> m.res,
                          macro_depth |-> Len(m.ctx.data_stack),
                          interpreted |-> r.ctx.interpreted])

\* (define x expr) for a literal expr, while x is not yet defined.
Define ==
    \E a \in DefExprs :
        LET r == define(Ctx, <<AIdentifier("x"), a>>)
        IN  /\ Alive
            /\ "x" \notin DOMAIN ident_mapping
            /\ Commit(r, [op |-> "define", args |-> <<AIdentifier("x"), a>>])

\* interpret of the literal 1, an operand of a call being evaluated.
InterpretOperand ==
    /\ Alive
    /\ Commit(interpret(Ctx, ALiteral(Numeric(1))), [op |-> "interpret"])

\* The REPL on a top-level identifier: interpret, then pop_data for printing.
ReplName ==
    \E name \in DOMAIN ident_mapping :
        LET i == interpret(Ctx, AIdentifier(name))
            p == IF i.res.tag = "Ok" THEN pop_data(i.ctx) ELSE i
        IN  /\ Alive
            /\ Commit(p, [op |-> "repl", name |-> name])

\* (define name expr) for a literal or a defined name, also when name is
\* defined already.
DefineName ==
    \E name \in {"x", "y"}, a \in DefExprs \cup {AIdentifier(n) : n \in DOMAIN ident_mapping} :
        /\ Alive
        /\ Commit(define(Ctx, <<AIdentifier(name), a>>),
                  [op |-> "define", args |-> <<AIdentifier(name), a>>])

\* add, sub, mul, div with operand count n.  Division by zero is left out:
\* what Numeric's `/` does there is outside these sources.
Arith ==
    \E op \in ArithOps, n \in 0..MaxData :
        LET r == bin_op(Ctx, op, n)
        IN  /\ Alive
            /\ (op = "div" /\ n <= Len(data_stack)) =>
                    \A k \in 2..n : IsNumber(Operands(n)[k]) => NumberOf(Operands(n)[k]) # 0
            /\ InRange(r.ctx)
            /\ Commit(r, [op |-> op, n |-> n])

\* eq, lt, lteq, gt, gteq with operand count n.  The order relations are
\* applied to numbers: how ObjectRef orders other values is outside these sources.
Cmp ==
    \E op \in CmpOps, n \in 0..MaxData :
        /\ Alive
        /\ (op # "eq" /\ n <= Len(data_stack)) => \A k \in 1..n : IsNumber(Operands(n)[k])
        /\ Commit(cmp_op(Ctx, op, n), [op |-> op, n |-> n])

Write ==
    \E n \in 0..MaxData :
        /\ Alive
        /\ Commit(write(Ctx, n), [op |-> "write", n |-> n])

StackTrace ==
    \E n \in 0..MaxData :
        /\ Alive
        /\ Commit(stack_trace(Ctx, n), [op |-> "stack_trace", n |-> n])

HeapDump ==
    \E n \in 0..MaxData :
        /\ Alive
        /\ Commit(heap_dump(Ctx, n), [op |-> "heap_dump", n |-> n])

Car ==
    \E n \in 0..MaxArgs :
        /\ Alive
        /\ Commit(car(Ctx, n), [op |-> "car", n |-> n])

Cdr ==
    \E n \in 0..MaxArgs :
        /\ Alive
        /\ Commit(cdr(Ctx, n), [op |-> "cdr", n |-> n])

\* What every part of the standard library runs among: atoms being
\* evaluated, a definition, the REPL taking a result.
NextEval ==
    \/ Interpret
    \/ Define
    \/ ReplPop

NextIf == NextEval \/ If
NextArith == NextEval \/ Arith
NextCmp == NextEval \/ Cmp
NextList == NextEval \/ Car \/ Cdr

NextDefine == DefineName \/ ReplName \/ InterpretOperand \/ ReplPop
SpecDefine == Init /\ [][NextDefine]_vars

\* StackObject::heap_alloc_named, the call define makes on what it popped.
HeapAllocNamedStackObject ==
    \E s \in StackObjects, ident \in {"x", "y"} :
        /\ Alive
        /\ Commit(heap_alloc_named(StackObject_heap_alloc(Ctx, s), ident),
                  [op |-> "StackObject::heap_alloc_named", arg |-> s, ident |-> ident])

\* Definitions and named allocations, among allocations of StackObjects.
NextBind ==
    \/ DefineName
    \/ HeapAllocNamedStackObject
    \/ HeapAllocStackObject
    \/ InterpretOperand
    \/ ReplPop
SpecBind == Init /\ [][NextBind]_vars

\* The argument lists `lambda` is called with: every parameter spec with a
\* body, specs that are not parameter names, and every other count.
LambdaArgs ==
    LET body == AIdentifier("a")
        one == ALiteral(Numeric(1))
    IN  {<<AIdentifier("a"), body>>,
         <<Op("a", <<AIdentifier("b")>>), body>>,
         <<Op("a", <<>>), body>>,
         <<AEmptyList, body>>,
         <<one, body>>,
         <<Op("a", <<one>>), body>>,
         <<AIdentifier("a")>>, <<Op("a", <<AIdentifier("b")>>)>>, <<AEmptyList>>, <<one>>}
        \cup {[k \in 1..n |-> AIdentifier("a")] : n \in {0} \cup 3..MaxArgs}

\* The argument lists `define` is called with: a value and a function
\* definition, heads that cannot be defined, and every other count.
DefineArgs ==
    LET body == AIdentifier("a")
        one == ALiteral(Numeric(1))
    IN  {<<AIdentifier("x"), one>>,
         <<Op("f", <<AIdentifier("a")>>), body>>,
         <<Op("f", <<one>>), body>>,
         <<one, one>>,
         <<AIdentifier("x")>>, <<Op("f", <<AIdentifier("a")>>)>>, <<Op("f", <<one>>)>>, <<one>>}
        \cup {[k \in 1..n |-> AIdentifier("x")] : n \in {0} \cup 3..MaxArgs}

\* The dispatcher on (lambda ...).
Lambda ==
    \E args \in LambdaArgs :
        /\ Alive
        /\ Commit(lambda(Ctx, args), [op |-> "lambda", args |-> args])

\* The dispatcher on (define ...), with any number of arguments.
DefineForm ==
    \E args \in DefineArgs :
        /\ Alive
        /\ Commit(define(Ctx, args), [op |-> "define", args |-> args])

\* The two forms that build functions, among the REPL taking results.
NextForm == Lambda \/ DefineForm \/ ReplPop
SpecForm == Init /\ [][NextForm]_vars

\* The native functions: arithmetic, comparisons, write and the two dumps.
NextNative == NextEval \/ Arith \/ Cmp \/ Write \/ StackTrace \/ HeapDump
SpecNative == Init /\ [][NextNative]_vars

\* The two dumps alone.
NextDump == NextEval \/ StackTrace \/ HeapDump
SpecDump == Init /\ [][NextDump]_vars

SpecIf == Init /\ [][NextIf]_vars
SpecArith == Init /\ [][NextArith]_vars
SpecCmp == Init /\ [][NextCmp]_vars
SpecList == Init /\ [][NextList]_vars

\* The file ids a form's span may carry: those of loaded files, and one more
\* for a form typed at the REPL.
FileIds == 0..Cardinality(DOMAIN Disk)

\* The module paths that are imported.
ImportPaths ==
    {<<>>, <<"m">>, <<"n">>, <<"k">>, <<"lib", "k">>, <<"bad">>, <<"nofile">>}

\* The argument lists `import` is called with by a form of file cur_file_id.
ImportArgs(cur_file_id) ==
    {[k \in 1..Len(p) |-> Spanned(AIdentifier(p[k]), Span(cur_file_id, 1))] : p \in ImportPaths}
    \cup {<<Spanned(AIdentifier("m"), Span(cur_file_id, 1)),
            Spanned(ALiteral(Numeric(1)), Span(cur_file_id, 1))>>}

\* The dispatcher on a top-level (import ...).
Import ==
    \E cur_file_id \in FileIds :
        \E ast \in ImportArgs(cur_file_id) :
            LET r == import(Ctx, ast, MaxNest)
            IN  /\ Alive
                /\ Commit(r, [op |-> "import", args |-> ast, interpreted |-> r.ctx.interpreted])

\* The module loader runs among the REPL taking results.
NextImport == Import \/ ReplPop

\* The file id of a form typed at the REPL: no file is registered under it.
ReplFile == Cardinality(DOMAIN Disk)

\* The expressions evaluated at the REPL, one of every kind of node.
Exprs ==
    LET one == ALiteral(Numeric(1))
        no == ALiteral(Boolean(FALSE))
        names == {AIdentifier(n) : n \in DOMAIN ident_mapping}
    IN  {one} \cup names
        \cup {Op("add", <<one, one>>), Op("lteq", <<one, one>>), Op("car", <<one>>),
              Op("write", <<one, no>>), Op("write", <<>>),
              Op("lambda", <<[ast |-> "Operation", op |-> AIdentifier("a"),
                              args |-> <<AIdentifier("b")>>], AIdentifier("a")>>),
              Op("lambda", <<AEmptyList, one>>),
              Op("lambda", <<one, one>>),
              Op("if", <<no, no, one>>),
              Op("import", <<Spanned(AIdentifier("m"), Span(ReplFile, 1))>>)}
        \cup (IF "x" \in DOMAIN ident_mapping THEN {}
              ELSE {Op("define", <<AIdentifier("x"), one>>)})
        \cup {Op("if", <<n, one, no>>) : n \in names}

\* The REPL on a top-level form: interpret(&ast).unwrap(), then pop_data and
\* print what was popped, if anything was.
ReplEval ==
    \E e \in Exprs :
        LET r == interpret_expr(Ctx, e)
            p == IF r.res.tag = "Ok" /\ Len(r.ctx.data_stack) > 0 THEN pop_data(r.ctx).ctx
                 ELSE r.ctx
        IN  /\ Alive
            /\ Commit([ctx |-> p, res |-> IF r.res.tag = "Ok" THEN Ok(Unit) ELSE Panic],
                      [op |-> "repl_eval", expr |-> e, eval |-> r.res,
                       before |-> Len(data_stack), after |-> Len(r.ctx.data_stack),
                       interpreted |-> r.ctx.interpreted])

NextRepl == ReplEval \/ InterpretOperand \/ ReplPop
SpecRepl == Init /\ [][NextRepl]_vars


SpecImport == Init /\ [][NextImport]_vars

---------------------------------------------------------------------------
(* The tree-walking evaluator's top-level forms as an action.              *)

Num(n) == ALiteral(Numeric(n))
Id(name) == AIdentifier(name)
Call(name, params) == AOperation(Id(name), params)

\* (define (fib n) (if (<= n 2) 1 (+ (fib (- n 1)) (fib (- n 2)))))
DefineFib ==
    Call("define",
         <<Call("fib", <<Id("n")>>),
           Call("if", <<Call("<=", <<Id("n"), Num(2)>>),
                        Num(1),
                        Call("+", <<Call("fib", <<Call("-", <<Id("n"), Num(1)>>)>>),
                                    Call("fib", <<Call("-", <<Id("n"), Num(2)>>)>>)>>)>>)>>)

\* The k for which (fib k) is evaluated.
FibArgs == 1..7

\* The top-level forms that are evaluated.
Forms ==
    {DefineFib}
    \cup {Call("fib", <<Num(k)>>) : k \in FibArgs}
    \cup {\* (define (add x y) (+ x y)), (add 1 2), (add (add 1 2) 3)
          Call("define", <<Call("add", <<Id("x"), Id("y")>>), Call("+", <<Id("x"), Id("y")>>)>>),
          Call("add", <<Num(1), Num(2)>>),
          Call("add", <<Call("add", <<Num(1), Num(2)>>), Num(3)>>),
          \* (define a 5), a, (define (second a b) b), (second 1 a)
          Call("define", <<Id("a"), Num(5)>>),
          Id("a"),
          Call("define", <<Call("second", <<Id("a"), Id("b")>>), Id("b")>>),
          Call("second", <<Num(1), Id("a")>>),
          \* (define (reset) (define a 1)), (reset)
          Call("define", <<Call("reset", <<>>), Call("define", <<Id("a"), Num(1)>>)>>),
          Call("reset", <<>>),
          \* (define (down n) (if (<= n 2) 1 (down 1))), (down 5)
          Call("define", <<Call("down", <<Id("n")>>),
                           Call("if", <<Call("<=", <<Id("n"), Num(2)>>), Num(1),
                                        Call("down", <<Num(1)>>)>>)>>),
          Call("down", <<Num(5)>>),
          \* (if #f 1 2)
          Call("if", <<ALiteral(Boolean(FALSE)), Num(1), Num(2)>>)}

\* Interpreter::interpret of a top-level form.
Run ==
    \E form \in Forms :
        LET r == Interpreter_interpret(Evaluation(stack), form, MaxRecursion)
        IN  /\ Alive
            /\ stack' = r.s.stack
            /\ last' = [op |-> "run", form |-> form, calls |-> r.s.calls, res |-> r.res]
            /\ UNCHANGED <<heap, data_stack, ident_mapping, error_writer, returned>>

NextProto == Run

SpecProto == Init /\ [][NextProto]_vars

Next == NextAlloc \/ HeapAllocNamedStackObject \/ Lambda \/ DefineForm \/ NextEval \/ DefineName \/ ReplName \/ InterpretOperand \/ If \/ Arith \/ Cmp \/ Write \/ StackTrace \/ HeapDump \/ Car \/ Cdr \/ Import \/ ReplEval \/ Run

Spec == Init /\ [][Next]_vars

---------------------------------------------------------------------------
(* The allocator's properties (SpecAlloc).                                 *)

EmptySlots(h) == {i \in 0..(Len(h) - 1) : h[i + 1] = None}
Min(S) == CHOOSE x \in S : \A y \in S : x <= y

\* C1: every pointer Heap(i) that a heap_alloc of a HeapObject returned still
\* dereferences to the object passed to that call, and no two calls returned
\* the same index: an occupied slot is never handed out again or overwritten.
C1_ReturnedPointersDereference ==
    /\ \A k \in 1..Len(returned) :
          /\ returned[k][1] < Len(heap)
          /\ heap[returned[k][1] + 1] = returned[k][2]
    /\ \A j, k \in 1..Len(returned) : j # k => returned[j][1] # returned[k][1]

\* Three objects were allocated one after the other and the last call returned Heap(2).
C1_Witness ==
    /\ last.op = "HeapObject::heap_alloc"
    /\ last.res = Ok(Heap(2))
    /\ Len(returned) = 3

C3_GrowsByOneSlot ==
    [][last'.op = "HeapObject::heap_alloc" =>
          Len(heap') = IF EmptySlots(heap) = {} THEN Len(heap) + 1 ELSE Len(heap)]_vars

\* C4: allocating Null in any representation fails with CannotAllocateNull.
C4_NullAllocationFails ==
    /\ (last.op = "ObjectPointer::stack_alloc" /\ last.arg = Null)
          => last.res = Err("CannotAllocateNull")
    /\ (last.op = "UnallocatedObject::stack_alloc" /\ last.arg = UNull)
          => last.res = Err("CannotAllocateNull")
    /\ (last.op = "UnallocatedObject::heap_alloc" /\ last.arg = UNull)
          => last.res = Err("CannotAllocateNull")
    /\ (last.op = "StackObject::heap_alloc" /\ last.arg = SRef(Null))
          => last.res = Err("CannotAllocateNull")

---------------------------------------------------------------------------
(* The properties of `if` (SpecIf).                                        *)

\* The value an atom denotes in the current state.
ValueOf(a) ==
    IF a.ast = "Literal" THEN HValue(a.lit) ELSE heap[ident_mapping[a.name].i + 1]

\* C5: for (if C X Y) the condition is evaluated once and popped again (the
\* data stack is as deep after if_macro as before), if_macro returns Y when
\* and only when C's value is the boolean false and X for every other value,
\* and the other sub-tree is not interpreted.
C5_IfSelectsBranch ==
    [][(last'.op = "if" /\ Len(last'.args) = 3) =>
          LET C == last'.args[1]
              X == last'.args[2]
              Y == last'.args[3]
              chosen == IF ValueOf(C) = HValue(Boolean(FALSE)) THEN Y ELSE X
          IN  /\ last'.macro = Ok(chosen)
              /\ last'.macro_depth = Len(data_stack)
              /\ last'.interpreted = <<C, chosen>>
              /\ data_stack' = Append(data_stack, SValue(chosen.lit))]_vars

\* The condition was the identifier x, bound to a heap slot holding false,
\* and the else branch was taken.
C5_Witness ==
    /\ last.op = "if"
    /\ Len(last.args) = 3
    /\ last.args[1] = AIdentifier("x")
    /\ ValueOf(AIdentifier("x")) = HValue(Boolean(FALSE))
    /\ last.macro = Ok(last.args[3])

\* C6: `if` with n # 3 argument sub-trees returns the error
\* ExpectedNParams{expected: 3, received: n} and evaluates none of them.
C6_IfArityError ==
    (last.op = "if" /\ Len(last.args) # 3) =>
        /\ last.res = ExpectedNParams(3, Len(last.args))
        /\ last.interpreted = <<>>

---------------------------------------------------------------------------
(* The properties of the arithmetic and comparison functions.              *)

\* ((v1 op v2) op v3) ... op vn
RECURSIVE LeftFold(_, _)
LeftFold(op, vs) ==
    IF Len(vs) = 1 THEN vs[1]
    ELSE LET acc == LeftFold(op, SubSeq(vs, 1, Len(vs) - 1))
             v == vs[Len(vs)]
         IN  CASE op = "add" -> acc + v
               [] op = "sub" -> acc - v
               [] op = "mul" -> acc * v
               [] op = "div" -> trunc_div(acc, v)

\* C7: add, sub, mul and div with n >= 1 numeric operands v1..vn, pushed in
\* that order, replace them by ((v1 op v2) op v3) ... op vn; with n = 1 by v1.
C7_ArithLeftFold ==
    [][(/\ last'.op \in ArithOps
        /\ last'.n >= 1
        /\ last'.n <= Len(data_stack)
        /\ \A k \in 1..last'.n : IsNumber(Operands(last'.n)[k])) =>
          /\ last'.res = Ok(Unit)
          /\ data_stack' =
                Append(SubSeq(data_stack, 1, Len(data_stack) - last'.n),
                       SValue(Numeric(LeftFold(last'.op,
                           [k \in 1..last'.n |-> NumberOf(Operands(last'.n)[k])]))))]_vars

\* sub folded three operands into -1 (the right-to-left fold of 0..1 operands
\* that give -1 from the left gives another number).
C7_Witness ==
    /\ last.op = "sub"
    /\ last.n = 3
    /\ last.res = Ok(Unit)
    /\ data_stack = <<SValue(Numeric(-1))>>

\* C8: arithmetic never crashes the process: with zero operands, or with two
\* or more operands one of which is no number, it returns FailedOperation.
C8_ArithNeverPanics ==
    [][last'.op \in ArithOps =>
          /\ last'.res.tag # "Panic"
          /\ (\/ last'.n = 0
              \/ /\ last'.n >= 2
                 /\ last'.n <= Len(data_stack)
                 /\ \E k \in 1..last'.n : ~IsNumber(Operands(last'.n)[k]))
                => last'.res = Err("FailedOperation")]_vars

\* The relation a comparison stands for, on two dereferenced values.
Relation(op, a, b) ==
    CASE op = "eq" -> a = b
      [] op = "lt" -> a.lit.n < b.lit.n
      [] op = "lteq" -> a.lit.n <= b.lit.n
      [] op = "gt" -> a.lit.n > b.lit.n
      [] op = "gteq" -> a.lit.n >= b.lit.n

\* C9: eq, lt, lteq, gt and gteq with n operands v1..vn, pushed in that
\* order, replace them by the boolean that is true iff the relation holds for
\* every adjacent pair (v_i, v_{i+1}); for n = 0 and n = 1 by true.
C9_CmpAdjacentPairs ==
    [][(last'.op \in CmpOps /\ last'.n <= Len(data_stack)) =>
          LET vs == Operands(last'.n)
              all == \A i \in 1..(last'.n - 1) :
                        Relation(last'.op, deref(Ctx, vs[i]).val, deref(Ctx, vs[i + 1]).val)
          IN  /\ last'.res = Ok(Unit)
              /\ data_stack' =
                    Append(SubSeq(data_stack, 1, Len(data_stack) - last'.n),
                           SValue(Boolean(all)))]_vars

\* lt compared three operands, and the answer was false.
C9_Witness ==
    /\ last.op = "lt"
    /\ last.n = 3
    /\ last.res = Ok(Unit)
    /\ data_stack = <<SValue(Boolean(FALSE))>>

---------------------------------------------------------------------------
(* The properties of car and cdr (SpecList).                               *)

\* C10: with one operand that is an inline scalar car leaves the data stack
\* as it was and cdr fails with ExpectedList; with n # 1 both fail with
\* ExpectedNParams{expected: 1, received: n} and pop nothing.
C10_CarCdrScalar ==
    [][last'.op \in {"car", "cdr"} =>
          /\ last'.n # 1 =>
                /\ last'.res = ExpectedNParams(1, last'.n)
                /\ data_stack' = data_stack
          /\ (/\ last'.n = 1
              /\ Len(data_stack) >= 1
              /\ data_stack[Len(data_stack)].so = "Value") =>
                IF last'.op = "car"
                THEN last'.res = Ok(Unit) /\ data_stack' = data_stack
                ELSE last'.res = Err("ExpectedList")]_vars

\* car was called on a scalar and returned it.
C10_Witness ==
    /\ last.op = "car"
    /\ last.n = 1
    /\ last.res = Ok(Unit)
    /\ Len(data_stack) = 2
    /\ data_stack[2].so = "Value"

---------------------------------------------------------------------------
(* The properties of the module loader (SpecImport).                       *)

\* The file that the import arguments ast name, all of them identifiers.
ImportedPath(ast) ==
    import_file_path(error_writer, ast[1].span.file_id, [k \in 1..Len(ast) |-> ast[k].name])

IsModulePath(ast) == Len(ast) > 0 /\ \A k \in 1..Len(ast) : ast[k].ast = "Identifier"

\* C11: an import whose resolved file is already among the loaded paths
\* returns Ok and changes nothing: the registry (loaded paths, id-to-path map,
\* file contents) is as before, so no file id is issued, no form is
\* interpreted, and heap, data stack and name table are as before.
C11_ReimportNoOp ==
    [][(/\ last'.op = "import"
        /\ IsModulePath(last'.args)
        /\ ImportedPath(last'.args) \in DOMAIN error_writer.loaded_paths) =>
          /\ last'.res = Ok(Unit)
          /\ error_writer' = error_writer
          /\ last'.interpreted = <<>>
          /\ <<heap, data_stack, ident_mapping>>' = <<heap, data_stack, ident_mapping>>]_vars

\* lib/k was imported again, by a form of a file in lib, after three files
\* had been loaded.
C11_Witness ==
    /\ last.op = "import"
    /\ IsModulePath(last.args)
    /\ last.args[1].span.file_id \in DOMAIN error_writer.id_to_path
    /\ ImportedPath(last.args) = <<"lib", "k">>
    /\ Cardinality(DOMAIN error_writer.files) = 3
    /\ last.res = Ok(Unit)
    /\ last.interpreted = <<>>

\* C12: an import of files that import each other, or themselves, finishes
\* (the nesting of imports never exhausts the call stack), no form of a file
\* is interpreted twice, and no file is registered twice.
C12_CyclicImportsTerminate ==
    /\ last.op = "import" =>
          /\ last.res.tag # "Panic"
          /\ \A j, k \in 1..Len(last.interpreted) :
                j # k => last.interpreted[j].span # last.interpreted[k].span
    /\ \A i, j \in DOMAIN error_writer.id_to_path :
          i # j => error_writer.id_to_path[i] # error_writer.id_to_path[j]

\* (import m) ran m, n and lib/k, which import each other and themselves:
\* seven forms in all.
C12_Witness ==
    /\ last.op = "import"
    /\ last.res = Ok(Unit)
    /\ Len(last.interpreted) = 7
    /\ Cardinality(DOMAIN error_writer.files) = 3

---------------------------------------------------------------------------
(* The properties of calls of defined functions (SpecProto).               *)

\* C13: a call of a defined function that returns had pushed one frame on
\* entry and leaves the frame stack as deep as before with the same frames
\* as before the call, also when it is nested in another call; a top-level
\* call yields its body's result.
C13_CallRestoresFrames ==
    last.op = "run" =>
        /\ \A k \in 1..Len(last.calls) :
              /\ Len(last.calls[k].entered) = Len(last.calls[k].before) + 1
              /\ last.calls[k].after = last.calls[k].before
        /\ (Len(last.calls) > 0 /\ Len(last.calls[Len(last.calls)].before) = 1)
              => last.res = Ok(last.calls[Len(last.calls)].result)

\* C13 as amended: the frames are as deep as before, bind the same names as
\* before, and a binding differs only for a name that a define evaluated
\* during the call assigned.
C13_CallRestoresFramesButDefines ==
    last.op = "run" =>
        /\ \A k \in 1..Len(last.calls) :
              LET c == last.calls[k]
              IN  /\ Len(c.entered) = Len(c.before) + 1
                  /\ SubSeq(c.entered, 1, Len(c.before)) = c.before
                  /\ Len(c.after) = Len(c.before)
                  /\ \A j \in 1..Len(c.before) :
                        /\ DOMAIN c.after[j] = DOMAIN c.before[j]
                        /\ \A name \in DOMAIN c.before[j] :
                              c.after[j][name] # c.before[j][name] => name \in c.defined
        /\ (Len(last.calls) > 0 /\ Len(last.calls[Len(last.calls)].before) = 1)
              => /\ last.res = Ok(last.calls[Len(last.calls)].result)
                 /\ Len(stack) = 1

\* (down 5) returned: it called itself from inside its own frame, and both
\* calls returned.
C13_Witness ==
    /\ last.op = "run"
    /\ last.form = Call("down", <<Num(5)>>)
    /\ last.res = Ok(SymValue(Numeric(1)))
    /\ Len(last.calls) = 2
    /\ Len(last.calls[1].before) = 2
    /\ Len(last.calls[1].entered) = 3

\* C14: in a call of a defined function, parameter i evaluates to the value
\* the i-th argument has in the caller's scope, here for the arguments that
\* are literals or names bound to a value there, also when the argument
\* is a name that is a parameter of the callee as well.
C14_ArgumentsFromCallerScope ==
    last.op = "run" =>
        \A k \in 1..Len(last.calls) :
            LET c == last.calls[k]
            IN  \A i \in 1..Len(c.params) :
                    LET arg == c.params[i].ast
                        known == \/ arg.ast = "Literal"
                                 \/ /\ arg.ast = "Identifier"
                                    /\ resolve_symbol(c.before, arg.name).some
                                    /\ resolve_symbol(c.before, arg.name).val.sym = "Value"
                    IN  (i <= Len(c.f.param_names) /\ known) =>
                            Interpreter_interpret(Evaluation(c.entered), Id(c.f.param_names[i]),
                                                  MaxRecursion).res
                              = Ok(IF arg.ast = "Literal" THEN SymValue(arg.lit)
                                   ELSE resolve_symbol(c.before, arg.name).val)

\* The k-th Fibonacci number.
RECURSIVE Fib(_)
Fib(k) == IF k <= 2 THEN 1 ELSE Fib(k - 1) + Fib(k - 2)

\* C15: the definition of fib yields the unit result, and then (fib k), for
\* k in 1..7, returns the k-th Fibonacci number with the frame stack as deep
\* as at the start.
C15_FibTerminates ==
    last.op = "run" =>
        /\ last.form = DefineFib => last.res = Ok(Bottom)
        /\ \A k \in FibArgs :
              (last.form = Call("fib", <<Num(k)>>) /\ "fib" \in DOMAIN stack[1]) =>
                  /\ last.res = Ok(SymValue(Numeric(Fib(k))))
                  /\ Len(stack) = 1

---------------------------------------------------------------------------
(* The properties of define (SpecDefine).                                  *)

\* C16: after (define name expr) succeeds the identifier name evaluates to
\* a reference to the value expr had, the data stack is as it was before the
\* define, and this holds as well when name was defined before: name then
\* yields the value of the later define.
C16_DefineBindsValue ==
    [][(last'.op = "define" /\ last'.res = Ok(Unit)) =>
          LET name == last'.args[1].name
              value == ValueOf(last'.args[2])
              i == interpret(Ctx', AIdentifier(name))
          IN  /\ data_stack' = data_stack
              /\ i.res = Ok(Unit)
              /\ Len(i.ctx.data_stack) = Len(data_stack') + 1
              /\ deref(i.ctx, i.ctx.data_stack[Len(i.ctx.data_stack)]) = Ok(value)]_vars

\* x was defined as 1 and then defined again as #f: it now refers to slot 1.
C16_Witness ==
    /\ last.op = "define"
    /\ last.res = Ok(Unit)
    /\ last.args = <<AIdentifier("x"), ALiteral(Boolean(FALSE))>>
    /\ DOMAIN ident_mapping = {"x"}
    /\ Len(data_stack) = 2
    /\ ident_mapping["x"] = Heap(1)
    /\ heap[1] = HValue(Numeric(1))
    /\ heap[2] = HValue(Boolean(FALSE))

---------------------------------------------------------------------------
(* The properties of the native functions (SpecNative, SpecDump).          *)

NativeOps == ArithOps \cup CmpOps \cup {"write", "stack_trace", "heap_dump"}

\* C17: a native function invoked with operand count n on a data stack of
\* depth d >= n pops exactly n items: after an arithmetic function or a
\* comparison that succeeds the depth is d - n + 1, after write, stack_trace
\* and heap_dump it is d - n.
C17_NativePopsN ==
    [][(last'.op \in NativeOps /\ last'.n <= Len(data_stack) /\ last'.res.tag # "Panic") =>
          Len(data_stack') =
              IF last'.op \in ArithOps \cup CmpOps /\ last'.res.tag = "Ok"
              THEN Len(data_stack) - last'.n + 1
              ELSE Len(data_stack) - last'.n]_vars

\* C20: stack_trace and heap_dump, with any operand count n, leave the heap
\* table, the frames, the data stack, the global name table and the file
\* registry as they were.
C20_DumpsChangeNothing ==
    [][last'.op \in {"stack_trace", "heap_dump"} =>
          /\ last'.res = Ok(Unit)
          /\ <<heap, stack, data_stack, ident_mapping, error_writer>>'
                = <<heap, stack, data_stack, ident_mapping, error_writer>>]_vars

\* stack_trace was called with two operands on a data stack of three items,
\* over a heap that holds a value.
C20_Witness ==
    /\ last.op = "stack_trace"
    /\ last.n = 2
    /\ Len(data_stack) = 3
    /\ Len(heap) > 0
    /\ "x" \in DOMAIN ident_mapping

---------------------------------------------------------------------------
(* The properties of the evaluation of any node (SpecRepl).                *)

AtomsIn(nodes) == {k \in 1..Len(nodes) : nodes[k].ast # "Operation"}

---------------------------------------------------------------------------
(* The property of list cells (SpecAlloc).                                 *)

\* C19: in every heap each List cell holds on both sides a Heap pointer to
\* an occupied slot, and a heap_alloc of an UnallocatedObject::List that
\* succeeds stored the head, then the tail, then the cell, the cell last.
C19_ListCellsHoldHeapPointers ==
    /\ \A i \in Occupied(heap) :
          heap[i + 1].ho = "List" =>
              /\ heap[i + 1].head.ptr = "Heap" /\ heap[i + 1].head.i \in Occupied(heap)
              /\ heap[i + 1].tail.ptr = "Heap" /\ heap[i + 1].tail.i \in Occupied(heap)
    /\ (/\ last.op = "UnallocatedObject::heap_alloc"
        /\ last.arg.uo = "List"
        /\ last.res.tag = "Ok") =>
          LET n == Len(returned)
          IN  /\ n >= 3
              /\ returned[n] = <<last.res.val.i, HList(Heap(returned[n - 2][1]),
                                                       Heap(returned[n - 1][1]))>>
              /\ returned[n - 2][2] = HValue(last.arg.head.lit)
              /\ returned[n - 1][2] = HValue(last.arg.tail.lit)

\* A list of two values was allocated in slots 1, 2 and 3 of a heap whose
\* slot 0 was taken.
C19_Witness ==
    /\ last.op = "UnallocatedObject::heap_alloc"
    /\ last.arg.uo = "List"
    /\ last.res = Ok(Heap(3))
    /\ heap[4] = HList(Heap(1), Heap(2))

---------------------------------------------------------------------------
(* The properties of references in the name table (SpecBind).              *)

\* C21: heap_alloc of a StackObject::Ref(p) returns p and leaves the heap
\* table as it was; heap_alloc of a StackObject::Value(v) occupies exactly one
\* slot more, which holds HeapObject::Value(v), and changes no occupied slot;
\* (define y x) for a bound x leaves the table as it was and binds y to the
\* pointer x is bound to.
C21_RefAllocIsIdentity ==
    [][/\ (last'.op = "StackObject::heap_alloc" /\ last'.arg.so = "Ref") =>
              /\ last'.res = Ok(last'.arg.p)
              /\ heap' = heap
       /\ (last'.op = "StackObject::heap_alloc" /\ last'.arg.so = "Value") =>
              /\ last'.res.tag = "Ok"
              /\ last'.res.val.ptr = "Heap"
              /\ last'.res.val.i \notin Occupied(heap)
              /\ Occupied(heap') = Occupied(heap) \cup {last'.res.val.i}
              /\ heap'[last'.res.val.i + 1] = HValue(last'.arg.lit)
              /\ \A i \in Occupied(heap) : heap'[i + 1] = heap[i + 1]
       /\ (/\ last'.op = "define"
           /\ last'.res = Ok(Unit)
           /\ last'.args[2].ast = "Identifier") =>
              /\ heap' = heap
              /\ ident_mapping'[last'.args[1].name] = ident_mapping[last'.args[2].name]
              /\ \A n \in DOMAIN ident_mapping \ {last'.args[1].name} :
                    ident_mapping'[n] = ident_mapping[n]]_vars

\* (define y x) ran while x was bound to slot 1, after another definition
\* had taken slot 0: y and x denote slot 1, and no slot was taken for y.
C21_Witness ==
    /\ last.op = "define"
    /\ last.res = Ok(Unit)
    /\ last.args = <<AIdentifier("y"), AIdentifier("x")>>
    /\ ident_mapping["x"] = Heap(1)
    /\ ident_mapping["y"] = Heap(1)
    /\ Cardinality(Occupied(heap)) = 2

\* C22: every entry of the global name table maps its identifier to a
\* Heap(i) pointer whose slot i is occupied, never to Null.
C22_NameTableHoldsOccupiedSlots ==
    \A n \in DOMAIN ident_mapping :
        /\ ident_mapping[n].ptr = "Heap"
        /\ ident_mapping[n].i \in Occupied(heap)

---------------------------------------------------------------------------
(* The properties of lambda and of the arity of define and lambda          *)
(* (SpecForm).                                                             *)

\* The parameter names a parameter spec stands for: [x] for an identifier x,
\* [h, p1, ..] for a list headed by h, [] for the empty list.
ParamsOf(first) ==
    CASE first.ast = "Identifier" -> <<first.name>>
      [] first.ast = "Operation" ->
            <<first.op.name>> \o [k \in 1..Len(first.args) |-> first.args[k].name]
      [] first.ast = "EmptyList" -> <<>>

\* C23: a lambda with a parameter spec and a body that succeeds pushes
\* exactly one StackObject, a Ref to a heap slot that was empty and now
\* holds Func::Defined(None, params, body); the items below it, the other
\* occupied slots, the global name table and the frames are as before.
C23_LambdaPushesAnonymousFunc ==
    [][(last'.op = "lambda" /\ last'.res = Ok(Unit)) =>
          LET top == data_stack'[Len(data_stack')]
          IN  /\ Len(last'.args) = 2
              /\ data_stack' = Append(data_stack, top)
              /\ top.so = "Ref"
              /\ top.p.ptr = "Heap"
              /\ top.p.i \notin Occupied(heap)
              /\ Occupied(heap') = Occupied(heap) \cup {top.p.i}
              /\ heap'[top.p.i + 1] =
                    HFunc(FuncDefined(<<>>, ParamsOf(last'.args[1]), last'.args[2]))
              /\ \A i \in Occupied(heap) : heap'[i + 1] = heap[i + 1]
              /\ ident_mapping' = ident_mapping
              /\ stack' = stack]_vars

\* (lambda (a b) a) ran over a data stack of one item and a name table
\* holding x and f: it pushed a Ref to slot 3, which holds the function of
\* the parameters a and b.
C23_Witness ==
    /\ last.op = "lambda"
    /\ last.res = Ok(Unit)
    /\ last.args[1] = Op("a", <<AIdentifier("b")>>)
    /\ Len(data_stack) = 2
    /\ data_stack[2] = SRef(Heap(3))
    /\ heap[4] = HFunc(FuncDefined(<<>>, <<"a", "b">>, AIdentifier("a")))
    /\ DOMAIN ident_mapping = {"x", "f"}

\* C26: define and lambda called with n # 2 argument sub-trees return the
\* error ExpectedNParams{expected: 2, received: n}, without a panic, and
\* leave the heap, the data stack and the global name table as they were.
C26_DefineLambdaArity ==
    [][(last'.op \in {"define", "lambda"} /\ Len(last'.args) # 2) =>
          /\ last'.res = ExpectedNParams(2, Len(last'.args))
          /\ <<heap, data_stack, ident_mapping>>' = <<heap, data_stack, ident_mapping>>]_vars

---------------------------------------------------------------------------
(* The properties of failed operations (SpecAlloc, SpecImport).            *)

AllocOps ==
    {"HeapObject::heap_alloc", "StackObject::heap_alloc", "UnallocatedObject::heap_alloc",
     "ObjectPointer::stack_alloc", "UnallocatedObject::stack_alloc", "HeapObject::stack_alloc"}

\* C24: an allocation that fails with CannotAllocateNull, that of a list
\* with a Null tail included, leaves the heap table and the global name
\* table as they were before the call.
C24_FailedAllocChangesNothing ==
    [][(last'.op \in AllocOps /\ last'.res = Err("CannotAllocateNull")) =>
          /\ heap' = heap
          /\ ident_mapping' = ident_mapping]_vars

\* C25: an import that fails with an error leaves the set of loaded paths
\* as it was before the call.
C25_FailedImportRegistersNothing ==
    [][(last'.op = "import" /\ last'.res.tag = "Err") =>
          DOMAIN error_writer'.loaded_paths = DOMAIN error_writer.loaded_paths]_vars

====
